---- MODULE Spec2Model ----
(***************************************************************************)
(* Pool-backed allocator for singly linked stacks (exam/stack_pool.hpp,    *)
(* exam/src/stack_pool.cpp, exam/src/first_impl.cpp).                      *)
(*                                                                         *)
(* The pool is a std::vector<node_t>; a stack is a handle, the 1-based     *)
(* index of its top node, 0 being the empty stack.  Freed nodes are        *)
(* threaded through the same next fields, rooted at free_nodes.            *)
(***************************************************************************)
EXTENDS Integers, Sequences, FiniteSets, TLC

\* ---------------------------------------------------------------- bounds
MaxLen == 2        \* largest storage length (pool.size()) explored
MaxVal == 2        \* stored values are 1..MaxVal
NStacks == 2       \* stack handles the caller holds at once
MaxReserve == 1    \* largest argument of reserve / of the constructor

Values == 1..MaxVal
StackIds == 1..NStacks

VARIABLES
    pool,        \* std::vector<node_t> pool: sequence of [value, next]
    free_nodes,  \* stack_type free_nodes: head of the list of free nodes
    cap,         \* pool.capacity()
    stacks,      \* the handles the caller holds (l1, l2 in main)
    content,     \* per held stack, the values the caller pushed and has
                 \* not removed, most recent first (the caller's view)
    op,          \* the last call: name, stack, argument, value, result
    variant,     \* the translation unit in use: "hpp" (stack_pool.hpp),
                 \* "cpp" (src/stack_pool.cpp, with check_index) or
                 \* "first" (src/first_impl.cpp, iterator over node_t*)
    status,      \* "ok" while every call so far was a valid one; otherwise
                 \* what the first other call was or did, the state being
                 \* the one that call left: "undefined", "crashed", "hung",
                 \* "rejected", "misused"
    cursor       \* the traversal the caller is in the middle of: the
                 \* iterator, the handle it began at, the values read so far

vars == <<pool, free_nodes, cap, stacks, content, op, variant, status, cursor>>

\* ------------------------------------------------------- the pool's code
\* stack_type end() const noexcept { return stack_type(0); }
end == 0

\* bool empty(stack_type x): x == end()
empty(x) == IF x = end THEN TRUE ELSE FALSE

\* stack_type new_stack(): the empty stack
new_stack == 0

\* node_t& node(stack_type x): pool[x-1]; sequences are 1-based, so the
\* node of handle x is the x-th element
node(p, x) == p[x]

value(p, x) == node(p, x).value

next(p, x) == node(p, x).next

\* pool.push_back on a full vector reallocates; libstdc++ doubles
Grow(c) == IF c = 0 THEN 1 ELSE 2 * c

\* reserve as shrink_to(n): the capacity becomes n even when it was larger
reserve_shrinks(c, n) == n

\* void reserve(size_type n): pool.reserve(n), never shrinks
reserve(c, n) == IF n > c THEN n ELSE c

\* free_node with next(free) = free after free = x: the node is linked to
\* itself
free_node_self_link(p, x, free) ==
    [pool |-> [p EXCEPT ![x].next = x], ret |-> x]

\* stack_type free_node(stack_type x, stack_type free)
free_node(p, x, free) ==
    [pool |-> [p EXCEPT ![x].next = free], ret |-> x]

\* pop reading next(x) after free_node has overwritten it: the result is
\* the old head of the free list
pop_late_read(p, f, x) ==
    IF ~empty(x)
    THEN LET r == free_node(p, x, f)
         IN  [pool |-> r.pool, free_nodes |-> r.ret, ret |-> next(r.pool, x)]
    ELSE [pool |-> p, free_nodes |-> f, ret |-> x]

\* stack_type pop(stack_type x) noexcept   (stack_pool.hpp)
pop(p, f, x) ==
    IF ~empty(x)
    THEN LET head == next(p, x)
             r == free_node(p, x, f)
         IN  [pool |-> r.pool, free_nodes |-> r.ret, ret |-> head]
    ELSE [pool |-> p, free_nodes |-> f, ret |-> x]

\* _push without next(tmp) = head: a reused node keeps its free-list link
_push_keeps_next(p, f, c, val, head) ==
    IF ~empty(f)
    THEN [pool |-> [p EXCEPT ![f].value = val],
          free_nodes |-> next(p, f), cap |-> c, ret |-> f]
    ELSE [pool |-> Append(p, [value |-> val, next |-> head]),
          free_nodes |-> f,
          cap |-> IF Len(p) = c THEN Grow(c) ELSE c,
          ret |-> Len(p) + 1]

\* _push without free_nodes = next(free_nodes): the free head is handed out
\* again and again
_push_no_advance(p, f, c, val, head) ==
    IF ~empty(f)
    THEN [pool |-> [p EXCEPT ![f] = [value |-> val, next |-> head]],
          free_nodes |-> f, cap |-> c, ret |-> f]
    ELSE [pool |-> Append(p, [value |-> val, next |-> head]),
          free_nodes |-> f,
          cap |-> IF Len(p) = c THEN Grow(c) ELSE c,
          ret |-> Len(p) + 1]

\* _push that never looks at the free list
_push_always_appends(p, f, c, val, head) ==
    [pool |-> Append(p, [value |-> val, next |-> head]),
     free_nodes |-> f,
     cap |-> IF Len(p) = c THEN Grow(c) ELSE c,
     ret |-> Len(p) + 1]

\* _push returning pool.size() in both branches
_push_returns_size(p, f, c, val, head) ==
    IF ~empty(f)
    THEN [pool |-> [p EXCEPT ![f] = [value |-> val, next |-> head]],
          free_nodes |-> next(p, f), cap |-> c, ret |-> Len(p)]
    ELSE [pool |-> Append(p, [value |-> val, next |-> head]),
          free_nodes |-> f,
          cap |-> IF Len(p) = c THEN Grow(c) ELSE c,
          ret |-> Len(p) + 1]

\* stack_type _push(D&& val, stack_type head)   (stack_pool.hpp)
_push(p, f, c, val, head) ==
    IF ~empty(f)
    THEN LET tmp == f
         IN  [pool |-> [p EXCEPT ![tmp] = [value |-> val, next |-> head]],
              free_nodes |-> next(p, f),
              cap |-> c,
              ret |-> tmp]
    ELSE [pool |-> Append(p, [value |-> val, next |-> head]),
          free_nodes |-> f,
          cap |-> IF Len(p) = c THEN Grow(c) ELSE c,
          ret |-> Len(p) + 1]

\* stack_type push(const T& val, stack_type head)
push(p, f, c, val, head) == _push(p, f, c, val, head)

\* next(x) as free_stack reads it.  next(0) is pool[-1], outside the
\* vector: the read yields whatever g lies there.
next_oob(p, x, g) == IF x = 0 THEN g ELSE next(p, x)

\* what free_stack_loop yields for a walk that never ends (no handle)
Hung == 0 - 1

\* the for loop of free_stack: it runs from begin(next_idx) to end(0) and x
\* follows one node behind; the result is the x the loop ends with, or Hung
\* when the chain never reaches 0.
RECURSIVE free_stack_loop(_, _, _, _, _)
free_stack_loop(p, x, it, g, fuel) ==
    IF it = end THEN x
    ELSE IF fuel = 0 THEN Hung
    ELSE free_stack_loop(p, next_oob(p, x, g), next(p, it), g, fuel - 1)

\* free_stack without the walk to the last node: only the top is spliced
free_stack_top_only(p, f, x, g) ==
    [pool |-> IF x = 0 THEN p ELSE [p EXCEPT ![x].next = f],
     free_nodes |-> x,
     ret |-> end]

\* free_stack without next(x) = free_nodes: the chain is not linked to the
\* free list it is put in front of
free_stack_forgets_free(p, f, x, g) ==
    [pool |-> p, free_nodes |-> x, ret |-> end]

\* stack_type free_stack(stack_type x) noexcept   (stack_pool.hpp)
\* The final next(x) = free_nodes with x = 0 writes outside the vector and
\* leaves every node as it was.
free_stack(p, f, x, g) ==
    LET start == x
        next_idx == next_oob(p, x, g)
        last == free_stack_loop(p, x, next_idx, g, Len(p) + 1)
    IN  IF last = Hung
        THEN [pool |-> p, free_nodes |-> f, ret |-> Hung]
        ELSE [pool |-> IF last = 0 THEN p ELSE [p EXCEPT ![last].next = f],
              free_nodes |-> start,
              ret |-> end]

\* size_type capacity() const: pool.capacity()   (stack_pool.hpp)
capacity(p, c) == c

\* check_index with the test of pop (x <= end()) in both cases
check_index_strict(x, m) == x <= end

\* void check_index(stack_type x, method m)   (src/stack_pool.cpp)
\* TRUE when it throws index_invalid.  stack_type is std::size_t: x >= 0.
check_index(x, m) ==
    CASE m = "push" -> x < end
      [] m = "pop" -> x <= end
      [] OTHER -> FALSE

\* the fallback both catch blocks return
Fallback == 1

\* the validating pop with a success path of its own: after the check it
\* frees the node first and reads next(x) afterwards
pop_checked_own_path(p, f, x) ==
    IF check_index(x, "pop")
    THEN [pool |-> p, free_nodes |-> f, ret |-> Fallback, thrown |-> TRUE]
    ELSE LET r == pop_late_read(p, f, x)
         IN  [pool |-> r.pool, free_nodes |-> r.free_nodes, ret |-> r.ret,
              thrown |-> FALSE]

\* stack_type pop(stack_type x) noexcept   (src/stack_pool.cpp)
pop_checked(p, f, x) ==
    IF check_index(x, "pop")
    THEN [pool |-> p, free_nodes |-> f, ret |-> Fallback, thrown |-> TRUE]
    ELSE LET r == pop(p, f, x)
         IN  [pool |-> r.pool, free_nodes |-> r.free_nodes, ret |-> r.ret,
              thrown |-> FALSE]

\* stack_type _push(D&& val, stack_type head)   (src/stack_pool.cpp)
_push_checked(p, f, c, val, head) ==
    IF check_index(head, "push")
    THEN [pool |-> p, free_nodes |-> f, cap |-> c, ret |-> Fallback,
          thrown |-> TRUE]
    ELSE LET r == _push(p, f, c, val, head)
         IN  [pool |-> r.pool, free_nodes |-> r.free_nodes, cap |-> r.cap,
              ret |-> r.ret, thrown |-> FALSE]

\* size_type capacity() const: pool.size()   (src/first_impl.cpp)
capacity_first(p, c) == Len(p)

\* ------------------------------------------------------------- iterator
\* _iterator{pool, x}: the cursor is the handle
begin(x) == [stack_index |-> x]

\* end(x) built from its argument instead of end()
end_at_argument(x) == [stack_index |-> x]

end_it(x) == [stack_index |-> end]

\* reference operator*(): p->value(stack_index)
deref(p, it) == value(p, it.stack_index)

\* operator++ without the assignment: the iterator stays where it is
incr_stays(p, it) == it

\* _iterator& operator++(): stack_index = p->next(stack_index)
incr(p, it) == [stack_index |-> next(p, it.stack_index)]

\* operator==: the handles are compared
iter_eq(a, b) == a.stack_index = b.stack_index

iter_neq(a, b) == ~iter_eq(a, b)

\* for (auto it = begin(x); it != end(0); it++) ... *it ...
\* the values visited, in order; fuel bounds a walk that never ends
RECURSIVE traverse_from(_, _, _)
traverse_from(p, it, fuel) ==
    IF iter_neq(it, end_it(0)) /\ fuel > 0
    THEN <<deref(p, it)>> \o traverse_from(p, incr(p, it), fuel - 1)
    ELSE <<>>

traverse(p, x) == traverse_from(p, begin(x), Len(p) + 1)

\* the handles visited by the same loop
RECURSIVE chain_from(_, _, _)
chain_from(p, it, fuel) ==
    IF iter_neq(it, end_it(0)) /\ fuel > 0
    THEN <<it.stack_index>> \o chain_from(p, incr(p, it), fuel - 1)
    ELSE <<>>

chain(p, x) == chain_from(p, begin(x), Len(p) + 1)

\* _iterator of src/first_impl.cpp: the cursor is a node_t*, the address of
\* a node.  An address is the buffer it points into and the position in
\* it; a vector's buffer is told from the earlier ones by its capacity,
\* which every reallocation raises.  &node(0) is the position before the
\* first node.
begin_first(c, x) == [buf |-> c, current |-> x]

end_first(c, x) == [buf |-> c, current |-> end]

\* reference operator*(): current->value, for a pointer into the buffer
\* the vector has now
deref_first(p, it) == value(p, it.current)

\* _iterator& operator++(): current = &p->next_node(current->next)
incr_first(p, c, it) == [buf |-> c, current |-> next(p, it.current)]

\* operator==: the addresses are compared
iter_eq_first(a, b) == a.buf = b.buf /\ a.current = b.current

iter_neq_first(a, b) == ~iter_eq_first(a, b)

\* ------------------------------------------------------------ the caller
Variants == {"hpp", "cpp", "first"}

\* pool.begin(x), pool.end(x), it != end, *it and it++ of the variant in use
call_begin(w, c, x) == IF w = "first" THEN begin_first(c, x) ELSE begin(x)

call_end(w, c, x) == IF w = "first" THEN end_first(c, x) ELSE end_it(x)

call_neq(w, a, b) == IF w = "first" THEN iter_neq_first(a, b) ELSE iter_neq(a, b)

call_deref(w, p, it) == IF w = "first" THEN deref_first(p, it) ELSE deref(p, it)

call_incr(w, p, c, it) == IF w = "first" THEN incr_first(p, c, it) ELSE incr(p, it)

\* whether the iterator refers to the storage as it is now: a handle always
\* does, an address only while the vector has the buffer it points into
refers_to_storage(w, c, it) == IF w = "first" THEN it.buf = c ELSE TRUE

\* the position the iterator stands at
position(w, it) == IF w = "first" THEN it.current ELSE it.stack_index

\* no traversal under way
NoIter == [held |-> FALSE, iter |-> begin(end), start |-> end, seen |-> <<>>]

\* the call pool.pop(x) / pool.push(val, head) of the variant in use
call_pop(w, p, f, x) ==
    IF w = "cpp" THEN pop_checked(p, f, x)
    ELSE LET r == pop(p, f, x)
         IN  [pool |-> r.pool, free_nodes |-> r.free_nodes, ret |-> r.ret,
              thrown |-> FALSE]

call_push(w, p, f, c, val, head) ==
    IF w = "cpp" THEN _push_checked(p, f, c, val, head)
    ELSE LET r == push(p, f, c, val, head)
         IN  [pool |-> r.pool, free_nodes |-> r.free_nodes, cap |-> r.cap,
              ret |-> r.ret, thrown |-> FALSE]

\* what the handle h is in the current state, as the caller of push sees
\* it: "sentinel", the "top" of a held stack, a node "inside" a held
\* chain, a "free" node, a handle "beyond" the storage, or a node in no chain
handle_kind(h) ==
    IF h = 0 THEN "sentinel"
    ELSE IF h > Len(pool) THEN "beyond"
    ELSE IF \E s \in StackIds : stacks[s] = h THEN "top"
    ELSE IF \E s \in StackIds : \E i \in 1..Len(chain(pool, stacks[s])) :
                chain(pool, stacks[s])[i] = h THEN "inside"
    ELSE IF \E i \in 1..Len(chain(pool, free_nodes)) :
                chain(pool, free_nodes)[i] = h THEN "free"
    ELSE "lost"

\* the node freed most recently with no push since (0 when there is none):
\* the x of the last pop or free_stack of a non-empty stack, kept across
\* calls that neither free nor allocate a node
LastFreed ==
    IF op.name \in {"pop", "free_stack"} /\ op.x # 0 /\ ~op.thrown THEN op.x
    ELSE IF op.name \in {"pop", "reserve", "new_stack"} THEN op.lf
    ELSE 0

\* the record of a call: s the stack a push was for, x the handle passed,
\* kind what x was, val the value pushed (for free_stack, the number of
\* nodes of the chain), ret the result, thrown whether check_index threw,
\* oob whether pool[-1] was accessed, lf LastFreed as the call found it
Call(name, s, x, val, ret, thrown, oob) ==
    [name |-> name, s |-> s, x |-> x, kind |-> handle_kind(x), val |-> val,
     ret |-> ret, thrown |-> thrown, oob |-> oob, lf |-> LastFreed]

\* the record of a call after which the run is not followed further
LastCall(name, x, val, ret, thrown, oob) ==
    [name |-> name, s |-> 0, x |-> x, kind |-> handle_kind(x), val |-> val,
     ret |-> ret, thrown |-> thrown, oob |-> oob, lf |-> 0]

\* the state after construction: stack_pool() or stack_pool(n), and the
\* caller's handles from new_stack()
InitPool(w) ==
    /\ pool = <<>>
    /\ free_nodes = end
    /\ cap \in 0..MaxReserve
    /\ stacks = [s \in StackIds |-> new_stack]
    /\ content = [s \in StackIds |-> <<>>]
    /\ op = [name |-> "init", s |-> 0, x |-> 0, kind |-> "sentinel", val |-> 0,
             ret |-> 0, thrown |-> FALSE, oob |-> FALSE, lf |-> 0]
    /\ variant = w
    /\ status = "ok"
    /\ cursor = NoIter

Init == InitPool("hpp")

InitChecked == InitPool("cpp")

\* l = pool.new_stack() on a handle that holds no nodes
NewStack(s) ==
    /\ status = "ok"
    /\ stacks[s] = 0
    /\ stacks' = [stacks EXCEPT ![s] = new_stack]
    /\ op' = Call("new_stack", 0, 0, 0, new_stack, FALSE, FALSE)
    /\ cursor' = NoIter
    /\ UNCHANGED <<pool, free_nodes, cap, content, variant, status>>

\* pool.reserve(n)
Reserve(n) ==
    /\ status = "ok"
    /\ cap' = reserve(cap, n)
    /\ op' = Call("reserve", 0, 0, 0, 0, FALSE, FALSE)
    /\ cursor' = NoIter
    /\ UNCHANGED <<pool, free_nodes, stacks, content, variant, status>>

\* the caller keeps an iterator across pushes; every other call of the pool
\* ends the traversal it was in
\* l = pool.push(v, l)
Push(s, v) ==
    /\ status = "ok"
    /\ free_nodes # 0 \/ Len(pool) < MaxLen
    /\ LET r == call_push(variant, pool, free_nodes, cap, v, stacks[s])
       IN  /\ pool' = r.pool
           /\ free_nodes' = r.free_nodes
           /\ cap' = r.cap
           /\ stacks' = [stacks EXCEPT ![s] = r.ret]
           /\ op' = Call("push", s, stacks[s], v, r.ret, r.thrown, FALSE)
           /\ status' = IF r.thrown THEN "rejected" ELSE "ok"
    /\ content' = [content EXCEPT ![s] = <<v>> \o @]
    /\ UNCHANGED <<variant, cursor>>

\* l = pool.push(v, h) with an h that is neither 0 nor the top of l: the
\* top of another stack, a node inside a chain, a free node, or len + 1
PushInvalid(s, v, h) ==
    /\ status = "ok"
    /\ h # 0 /\ h # stacks[s]
    /\ free_nodes # 0 \/ Len(pool) < MaxLen
    /\ LET r == call_push(variant, pool, free_nodes, cap, v, h)
       IN  /\ pool' = r.pool
           /\ free_nodes' = r.free_nodes
           /\ cap' = r.cap
           /\ stacks' = [stacks EXCEPT ![s] = r.ret]
           /\ op' = LastCall("push", h, v, r.ret, r.thrown, FALSE)
           /\ status' = IF r.thrown THEN "rejected" ELSE "misused"
    /\ UNCHANGED <<content, variant, cursor>>

\* l = pool.pop(l)
Pop(s) ==
    /\ status = "ok"
    /\ LET r == call_pop(variant, pool, free_nodes, stacks[s])
       IN  /\ pool' = r.pool
           /\ free_nodes' = r.free_nodes
           /\ stacks' = [stacks EXCEPT ![s] = r.ret]
           /\ op' = IF r.thrown
                    THEN LastCall("pop", stacks[s], 0, r.ret, TRUE, FALSE)
                    ELSE Call("pop", 0, stacks[s], 0, r.ret, FALSE, FALSE)
           /\ status' = IF r.thrown THEN "rejected" ELSE "ok"
    /\ content' = [content EXCEPT ![s] = IF @ = <<>> THEN @ ELSE Tail(@)]
    /\ cursor' = NoIter
    /\ UNCHANGED <<cap, variant>>

\* l = pool.free_stack(l) on a stack that holds nodes
FreeStack(s) ==
    /\ status = "ok"
    /\ stacks[s] # 0
    /\ LET r == free_stack(pool, free_nodes, stacks[s], 0)
       IN  /\ r.ret # Hung
           /\ pool' = r.pool
           /\ free_nodes' = r.free_nodes
           /\ stacks' = [stacks EXCEPT ![s] = r.ret]
           /\ op' = Call("free_stack", 0, stacks[s],
                         Len(chain(pool, stacks[s])), r.ret, FALSE, FALSE)
    /\ content' = [content EXCEPT ![s] = <<>>]
    /\ cursor' = NoIter
    /\ UNCHANGED <<cap, variant, status>>

\* l = pool.free_stack(l) on the empty stack: next(0) reads pool[-1], which
\* is undefined behaviour; g is the value the read finds there
FreeStackEmpty(s, g) ==
    /\ status = "ok"
    /\ stacks[s] = 0
    /\ LET r == free_stack(pool, free_nodes, stacks[s], g)
       IN  IF r.ret = Hung
           THEN /\ status' = "hung"
                /\ op' = LastCall("free_stack", 0, 0, Hung, FALSE, TRUE)
                /\ UNCHANGED <<pool, free_nodes, stacks>>
           ELSE /\ status' = "undefined"
                /\ pool' = r.pool
                /\ free_nodes' = r.free_nodes
                /\ stacks' = [stacks EXCEPT ![s] = r.ret]
                /\ op' = LastCall("free_stack", 0, 0, r.ret, FALSE, TRUE)
    /\ UNCHANGED <<cap, content, variant, cursor>>

\* the same call when the read of pool[-1] faults
FreeStackFault(s) ==
    /\ status = "ok"
    /\ stacks[s] = 0
    /\ status' = "crashed"
    /\ op' = LastCall("free_stack", 0, 0, Hung, FALSE, TRUE)
    /\ UNCHANGED <<pool, free_nodes, cap, stacks, content, variant, cursor>>

\* auto it = pool.begin(l): a traversal of a held stack starts
Begin(s) ==
    /\ status = "ok"
    /\ cursor' = [held |-> TRUE,
                  iter |-> call_begin(variant, cap, stacks[s]),
                  start |-> stacks[s],
                  seen |-> <<>>]
    /\ UNCHANGED <<pool, free_nodes, cap, stacks, content, op, variant, status>>

\* one round of for (auto it = begin(x); it != end(0); it++) ... *it ...
\* with an iterator that refers to the storage as it is
Visit ==
    /\ status = "ok"
    /\ cursor.held
    /\ refers_to_storage(variant, cap, cursor.iter)
    /\ call_neq(variant, cursor.iter, call_end(variant, cap, 0))
    /\ cursor' = [cursor EXCEPT
                    !.seen = Append(@, call_deref(variant, pool, cursor.iter)),
                    !.iter = call_incr(variant, pool, cap, cursor.iter)]
    /\ UNCHANGED <<pool, free_nodes, cap, stacks, content, op, variant, status>>

\* the same round with a node_t* into a buffer the vector has given up:
\* it compares unequal to &node(0) of the new buffer, and *it reads freed
\* memory, which is undefined behaviour; g is the value the read finds
VisitDangling(g) ==
    /\ status = "ok"
    /\ cursor.held
    /\ ~refers_to_storage(variant, cap, cursor.iter)
    /\ call_neq(variant, cursor.iter, call_end(variant, cap, 0))
    /\ status' = "undefined"
    /\ cursor' = [cursor EXCEPT !.seen = Append(@, g)]
    /\ UNCHANGED <<pool, free_nodes, cap, stacks, content, op, variant>>

\* the same round when the read of freed memory faults
VisitFault ==
    /\ status = "ok"
    /\ cursor.held
    /\ ~refers_to_storage(variant, cap, cursor.iter)
    /\ call_neq(variant, cursor.iter, call_end(variant, cap, 0))
    /\ status' = "crashed"
    /\ UNCHANGED <<pool, free_nodes, cap, stacks, content, op, variant, cursor>>

\* the calls of a caller that passes 0 or the top of a stack it holds
Next ==
    \/ \E s \in StackIds : NewStack(s)
    \/ \E n \in 0..MaxReserve : Reserve(n)
    \/ \E s \in StackIds, v \in Values : Push(s, v)
    \/ \E s \in StackIds : Pop(s)
    \/ \E s \in StackIds : FreeStack(s)
    \/ \E s \in StackIds, g \in 0..Len(pool) : FreeStackEmpty(s, g)
    \/ \E s \in StackIds : FreeStackFault(s)

\* stack_pool.hpp under those calls
Spec == Init /\ [][Next]_vars

\* the same calls, and pushes onto handles the caller does not hold
NextChecked ==
    \/ Next
    \/ \E s \in StackIds, v \in Values, h \in 1..(Len(pool) + 1) : PushInvalid(s, v, h)

\* src/stack_pool.cpp, the variant with check_index
SpecChecked == InitChecked /\ [][NextChecked]_vars

\* the calls of Next that are defined (free_stack of stacks that hold
\* nodes only), and traversals with the iterator
NextIter ==
    \/ \E s \in StackIds : NewStack(s)
    \/ \E n \in 0..MaxReserve : Reserve(n)
    \/ \E s \in StackIds, v \in Values : Push(s, v)
    \/ \E s \in StackIds : Pop(s)
    \/ \E s \in StackIds : FreeStack(s)
    \/ \E s \in StackIds : Begin(s)
    \/ Visit

\* stack_pool.hpp with its iterator over handles
SpecIter == Init /\ [][NextIter]_vars

InitFirst == InitPool("first")

NextFirst ==
    \/ NextIter
    \/ \E g \in 0..MaxVal : VisitDangling(g)
    \/ VisitFault

\* src/first_impl.cpp with its iterator over node addresses
SpecFirst == InitFirst /\ [][NextFirst]_vars

\* while (!pool.empty(l)) l = pool.pop(l): a stack drained by pops
RECURSIVE drain(_, _, _, _)
drain(p, f, x, fuel) ==
    IF empty(x) \/ fuel = 0
    THEN [pool |-> p, free_nodes |-> f, ret |-> x]
    ELSE LET r == pop(p, f, x)
         IN  drain(r.pool, r.free_nodes, r.ret, fuel - 1)

\* ------------------------------------------------------- chain membership
\* how many times handle n occurs in the sequence of handles c
Count(c, n) == Cardinality({i \in 1..Len(c) : c[i] = n})

RECURSIVE SumOver(_, _)
SumOver(f, S) ==
    IF S = {} THEN 0
    ELSE LET s == CHOOSE t \in S : TRUE
         IN  f[s] + SumOver(f, S \ {s})

\* occurrences of node n in the chains of the held stacks and in the free list
Occurrences(n) ==
    SumOver([s \in StackIds |-> Count(chain(pool, stacks[s]), n)], StackIds)
      + Count(chain(pool, free_nodes), n)

Elems(c) == {c[i] : i \in 1..Len(c)}

Reverse(q) == [i \in 1..Len(q) |-> q[Len(q) + 1 - i]]

MaxPush == 2       \* longest run of pushes applied to a reachable state

SeqsUpTo(n) == UNION {[1..k -> Values] : k \in 0..n}

\* l = pool.push(v1, l); ...; l = pool.push(vn, l), as main does; rets are
\* the handles the pushes returned
RECURSIVE push_all(_, _, _, _, _, _)
push_all(p, f, c, vs, head, rets) ==
    IF vs = <<>>
    THEN [pool |-> p, free_nodes |-> f, cap |-> c, ret |-> head, rets |-> rets]
    ELSE LET r == push(p, f, c, Head(vs), head)
         IN  push_all(r.pool, r.free_nodes, r.cap, Tail(vs), r.ret,
                      Append(rets, r.ret))

\* std::max_element / std::min_element over [begin(x), end(x)), dereferenced
RECURSIVE max_element(_)
max_element(q) ==
    IF Len(q) = 1 THEN q[1]
    ELSE LET m == max_element(Tail(q)) IN IF q[1] >= m THEN q[1] ELSE m

RECURSIVE min_element(_)
min_element(q) ==
    IF Len(q) = 1 THEN q[1]
    ELSE LET m == min_element(Tail(q)) IN IF q[1] <= m THEN q[1] ELSE m

Valid == status = "ok"

\* ------------------------------------------------------------------ C1
\* C1: after any sequence of push, pop and free_stack calls whose handle
\* argument is 0 or the top of a held stack, every allocated node 1..len
\* lies in exactly one of the chains of the held handles and the free list,
\* exactly once.  free_stack(0) is such a call.
C1_NodeInExactlyOneChain ==
    \A n \in 1..Len(pool) : Occurrences(n) = 1

\* ------------------------------------------------------------------ C2
\* C2: from any state reached by valid calls, pushing v1..vn onto
\* new_stack() and iterating from begin(top) to end visits exactly n
\* elements, vn, ..., v1; max_element and min_element over the iteration
\* are the largest and the smallest pushed value.
C2_PushThenIterate ==
    Valid =>
      \A vs \in SeqsUpTo(MaxPush) :
        \A r \in {push_all(pool, free_nodes, cap, vs, new_stack, <<>>)} :
          \A seen \in {traverse(r.pool, r.ret)} :
            /\ seen = Reverse(vs)
            /\ Len(seen) = Len(vs)
            /\ vs # <<>> =>
                 \A mx \in {max_element(seen)}, mn \in {min_element(seen)} :
                   /\ {mn, mx} \subseteq Elems(vs)
                   /\ \A i \in 1..Len(vs) : mn <= vs[i] /\ vs[i] <= mx

\* a stack of two different values built by pushes that reused freed nodes
\* (its top sits at a lower position than the node below it)
C2_Witness ==
    /\ Valid
    /\ op.name = "push"
    /\ Len(content[op.s]) = 2
    /\ content[op.s][1] # content[op.s][2]
    /\ traverse(pool, stacks[op.s]) = content[op.s]
    /\ stacks[op.s] < next(pool, stacks[op.s])

\* ------------------------------------------------------------------ C3
\* C3: for every held stack s and value v, value(push(v, s)) = v, and
\* pop(push(v, s)) returns a handle whose iteration sequence is that of s
\* before the push.
C3_PopUndoesPush ==
    Valid =>
      \A s \in StackIds, v \in Values :
        \A r \in {push(pool, free_nodes, cap, v, stacks[s])} :
          \A q \in {pop(r.pool, r.free_nodes, r.ret)} :
            /\ value(r.pool, r.ret) = v
            /\ traverse(q.pool, q.ret) = traverse(pool, stacks[s])
            /\ traverse(pool, stacks[s]) = content[s]

\* a pop has removed the value pushed last and left the values pushed before
C3_Witness ==
    /\ Valid
    /\ op.name = "pop"
    /\ op.x # 0
    /\ op.ret # 0
    /\ free_nodes = op.x
    /\ \E s \in StackIds :
         stacks[s] = op.ret /\ traverse(pool, op.ret) = content[s]

\* ------------------------------------------------------------------ C4
\* C4: two held stacks never share a node, and a push or a pop on one of
\* them leaves the iteration sequence of every other one as it was (the
\* sequence of each stays the values pushed onto it and not yet popped).
C4_StacksIndependent ==
    Valid =>
      /\ \A s, t \in StackIds :
           s # t => Elems(chain(pool, stacks[s])) \cap Elems(chain(pool, stacks[t])) = {}
      /\ \A t \in StackIds : traverse(pool, stacks[t]) = content[t]
      /\ \A s, t \in StackIds :
           s # t =>
             /\ \A v \in Values :
                  traverse(push(pool, free_nodes, cap, v, stacks[s]).pool, stacks[t])
                    = traverse(pool, stacks[t])
             /\ traverse(pop(pool, free_nodes, stacks[s]).pool, stacks[t])
                  = traverse(pool, stacks[t])

\* a push onto one stack while another held stack has elements
C4_Witness ==
    /\ Valid
    /\ op.name = "push"
    /\ \E t \in StackIds :
         /\ t # op.s
         /\ content[t] # <<>>
         /\ traverse(pool, stacks[t]) = content[t]
         /\ traverse(pool, stacks[op.s]) = content[op.s]

\* ------------------------------------------------------------------ C5
\* C5: after a pop of a non-empty stack or a free_stack of a non-empty
\* chain, with no push since, a push returns the node freed last (for
\* free_stack the former top) and leaves the storage length as it is; a
\* push that lengthens the storage found the free list empty.
C5_PushReusesLastFreed ==
    Valid =>
      /\ LastFreed # 0 =>
           \A s \in StackIds, v \in Values :
             \A r \in {push(pool, free_nodes, cap, v, stacks[s])} :
               r.ret = LastFreed /\ Len(r.pool) = Len(pool)
      /\ (op.name = "push" /\ op.lf # 0) => op.ret = op.lf
      /\ \A s \in StackIds, v \in Values :
           Len(push(pool, free_nodes, cap, v, stacks[s]).pool) > Len(pool)
             => free_nodes = 0

\* a push that followed a pop or a free_stack has got the node freed last
C5_Witness ==
    /\ Valid
    /\ op.name = "push"
    /\ op.lf # 0
    /\ op.ret = op.lf
    /\ Len(pool) = MaxLen

\* ------------------------------------------------------------------ C6
\* C6: free_stack on a held chain of n >= 1 nodes returns 0, and the n
\* pushes that follow, onto a new stack or onto a held one, return only
\* handles of 1..len, n different ones, and leave the storage length and
\* the capacity as they are.
C6_FreeStackMakesReusable ==
    (Valid /\ op.name = "free_stack" /\ op.x # 0) =>
      /\ op.ret = 0
      /\ op.val >= 1
      /\ \A vs \in [1..op.val -> Values], h \in {new_stack} \cup {stacks[s] : s \in StackIds} :
           \A r \in {push_all(pool, free_nodes, cap, vs, h, <<>>)} :
             /\ Len(r.pool) = Len(pool)
             /\ r.cap = cap
             /\ Elems(r.rets) \subseteq 1..Len(pool)
             /\ Cardinality(Elems(r.rets)) = op.val

\* a chain of two nodes has been freed
C6_Witness ==
    /\ Valid
    /\ op.name = "free_stack"
    /\ op.val >= 2
    /\ op.ret = 0

\* ------------------------------------------------------------------ C7
\* C7: pop on the empty stack (x = 0) returns 0 and changes neither the
\* storage nor the free list.
C7_PopEmptyIsNoOp ==
    [][(op'.name = "pop" /\ op'.x = 0) =>
         (op'.ret = 0 /\ pool' = pool /\ free_nodes' = free_nodes)]_vars

\* ------------------------------------------------------------------ C8
\* C8: iterating a stack with no elements (from new_stack(), fully popped,
\* or freed) visits nothing: its handle is 0 and begin equals end at once;
\* begin(0) equals end(h) for every handle h, and two iterators are equal
\* exactly when their handles are.
C8_EmptyIteration ==
    Valid =>
      /\ \A s \in StackIds :
           content[s] = <<>> =>
             /\ stacks[s] = new_stack
             /\ iter_eq(begin(stacks[s]), end_it(stacks[s]))
             /\ traverse(pool, stacks[s]) = <<>>
      /\ \A h \in 0..Len(pool) :
           iter_eq(begin(new_stack), end_it(h)) /\ ~iter_neq(begin(new_stack), end_it(h))
      /\ \A a, b \in 0..Len(pool) :
           /\ iter_eq(begin(a), begin(b)) <=> a = b
           /\ iter_neq(begin(a), begin(b)) <=> a # b

\* a stack has just lost its last element to a pop while nodes are allocated
C8_Witness ==
    /\ Valid
    /\ op.name = "pop"
    /\ op.x # 0
    /\ op.ret = 0
    /\ \E s \in StackIds : content[s] = <<>> /\ stacks[s] = 0
    /\ \E t \in StackIds : content[t] # <<>>

\* ------------------------------------------------------------------ C9
\* C9: no call shortens the storage or lowers capacity() (pool.capacity()
\* in stack_pool.hpp, pool.size() in first_impl.cpp); pop and free_stack
\* leave the storage length as it is; no node moves: the value at a
\* position changes only when a push returns that position.
C9_StorageOnlyGrows ==
    [][/\ Len(pool') >= Len(pool)
       /\ capacity(pool', cap') >= capacity(pool, cap)
       /\ capacity(pool', cap') >= Len(pool')
       /\ capacity_first(pool', cap') >= capacity_first(pool, cap)
       /\ op'.name \in {"pop", "free_stack"} => Len(pool') = Len(pool)
       /\ \A i \in 1..Len(pool) :
            value(pool', i) # value(pool, i) => (op'.name = "push" /\ op'.ret = i)
      ]_vars

\* reserve was called with less than the capacity on a full storage
C9_Witness ==
    /\ Valid
    /\ op.name = "reserve"
    /\ cap > MaxReserve
    /\ Len(pool) = MaxLen
    /\ free_nodes # 0

\* ----------------------------------------------------------------- C10
\* C10 as stated: in the validating variant, push raises index_invalid for
\* every head that is neither 0 nor the top of a held chain.
C10_PushRejectsInvalidHead ==
    (op.name = "push" /\ op.kind \notin {"sentinel", "top"}) => op.thrown

\* C10 as the code has it: check_index(head, push) throws for no handle
\* (head < 0 never holds of an unsigned handle), so every push, whatever
\* its head, raises nothing and allocates a node holding the value with
\* next = head.
C10_PushRejectsNothing ==
    op.name = "push" =>
      /\ ~op.thrown
      /\ status # "rejected"
      /\ op.ret \in 1..Len(pool)
      /\ node(pool, op.ret) = [value |-> op.val, next |-> op.x]

\* pushes with the handle of a free node have been accepted
C10_Witness ==
    /\ status = "misused"
    /\ op.name = "push"
    /\ op.kind = "free"
    /\ ~op.thrown
    /\ next(pool, op.ret) = op.x

C12_RejectionDistinguishable ==
    [][op'.thrown =>
         /\ pool' = pool
         /\ free_nodes' = free_nodes
         /\ cap' = cap
         /\ op'.ret \notin 1..Len(pool')
      ]_vars

\* ----------------------------------------------------------------- C13
\* C13: an iterator from begin(x), x a stack that holds nodes, that the
\* caller keeps while pushes lengthen (and may move) the storage stays
\* usable: every *it is defined
\* and yields the value of the node the iterator stands at, and the values
\* read so far followed by those of the nodes still ahead are the sequence
\* of the chain that began at x.
C13_IteratorSurvivesGrowth ==
    (cursor.held /\ cursor.start # 0) =>
      /\ status = "ok"
      /\ cursor.seen \o traverse(pool, position(variant, cursor.iter))
           = traverse(pool, cursor.start)

\* ----------------------------------------------------------------- C14
\* C14: in every state reached by calls whose handle is 0 or the top of a
\* held stack, following next from the top of a held stack reaches 0
\* after exactly as many steps as the stack has elements, without meeting
\* a node twice; the free list reaches 0 without meeting a node twice; and
\* the walk of free_stack over a held chain ends.
C14_ChainsAcyclic ==
    /\ \A s \in StackIds :
         \A c \in {chain(pool, stacks[s])} :
           /\ Len(c) = Len(content[s])
           /\ Cardinality(Elems(c)) = Len(c)
           /\ stacks[s] # 0 =>
                free_stack_loop(pool, stacks[s], next(pool, stacks[s]), 0,
                                Len(pool) + 1) # Hung
    /\ \A c \in {chain(pool, free_nodes)} : Cardinality(Elems(c)) = Len(c)

\* ----------------------------------------------------------------- C15
\* C15: a push(v, head) that finds the free list non-empty returns the old
\* free_nodes, sets free_nodes to the old next of that node, writes
\* {v, head} into it and leaves the storage length as it is; one that
\* finds it empty appends {v, head} and returns the new storage length.
\* Either way the handle returned is in 1..len and not 0, no other node
\* changes, and after every call every next field and free_nodes lie in
\* 0..len.
C15_PushAllocatesOneNode ==
    [][/\ op'.name = "push" =>
            /\ IF free_nodes # 0
               THEN /\ op'.ret = free_nodes
                    /\ free_nodes' = next(pool, free_nodes)
                    /\ Len(pool') = Len(pool)
               ELSE /\ op'.ret = Len(pool) + 1
                    /\ free_nodes' = 0
                    /\ Len(pool') = Len(pool) + 1
            /\ node(pool', op'.ret) = [value |-> op'.val, next |-> op'.x]
            /\ op'.ret \in 1..Len(pool')
            /\ op'.ret # 0
            /\ \A i \in 1..Len(pool) : i # op'.ret => node(pool', i) = node(pool, i)
       /\ \A i \in 1..Len(pool') : next(pool', i) \in 0..Len(pool')
       /\ free_nodes' \in 0..Len(pool')
      ]_vars

\* a push onto a stack that holds a node has reused the free node at the
\* lower position
C15_Witness ==
    /\ Valid
    /\ op.name = "push"
    /\ op.x # 0
    /\ op.ret < op.x
    /\ op.ret < Len(pool)
    /\ node(pool, op.ret) = [value |-> op.val, next |-> op.x]

\* ----------------------------------------------------------------- C16
\* C16: pop(x) with x # 0 returns the old next(x), sets next(x) to the old
\* free_nodes and free_nodes to x, and changes nothing else: no value, no
\* next field of another node, neither the storage length nor the capacity.
C16_PopFrame ==
    [][(op'.name = "pop" /\ op'.x # 0) =>
         /\ op'.ret = next(pool, op'.x)
         /\ next(pool', op'.x) = free_nodes
         /\ free_nodes' = op'.x
         /\ Len(pool') = Len(pool)
         /\ cap' = cap
         /\ \A i \in 1..Len(pool) :
              /\ value(pool', i) = value(pool, i)
              /\ i # op'.x => next(pool', i) = next(pool, i)
      ]_vars

\* a node has been popped onto a free list that held a node: the popped
\* node now points at the old free head, not at what it pointed at
C16_Witness ==
    /\ Valid
    /\ variant = "hpp"
    /\ op.name = "pop"
    /\ op.x # 0
    /\ free_nodes = op.x
    /\ next(pool, op.x) # 0
    /\ next(pool, op.x) # op.ret

\* ----------------------------------------------------------------- C17
\* C17: free_stack(x) on a held chain of n >= 1 nodes returns 0 and leaves
\* as free list the nodes of the chain of x, top first, followed by the
\* old free list; it writes free_nodes and the next field of the last node
\* of the chain and nothing else: no value, no other next field, no length.
C17_FreeStackSplices ==
    [][(op'.name = "free_stack" /\ op'.x # 0) =>
         \A c \in {chain(pool, op'.x)} :
           /\ op'.ret = 0
           /\ free_nodes' = op'.x
           /\ chain(pool', free_nodes') = c \o chain(pool, free_nodes)
           /\ next(pool', c[Len(c)]) = free_nodes
           /\ Len(pool') = Len(pool)
           /\ cap' = cap
           /\ \A i \in 1..Len(pool) :
                /\ value(pool', i) = value(pool, i)
                /\ i # c[Len(c)] => next(pool', i) = next(pool, i)
      ]_vars

\* a chain has been put in front of a free list that held a node
C17_Witness ==
    /\ Valid
    /\ op.name = "free_stack"
    /\ op.x # 0
    /\ free_nodes = op.x
    /\ Len(chain(pool, free_nodes)) > op.val

\* ----------------------------------------------------------------- C18
\* C18: a traversal changes nothing: begin and every round of the loop
\* (compare with end, read *it, advance) leave the storage, the free list
\* head, the capacity and the held handles as they are; each round reads
\* the value of the node the iterator stands at and moves the iterator to
\* next of that node; and a traversal that has reached end has read
\* exactly the sequence a traversal of the same handle yields afterwards.
C18_IterationNonDestructive ==
    [][(cursor'.held /\ cursor' # cursor) =>
         /\ pool' = pool
         /\ free_nodes' = free_nodes
         /\ cap' = cap
         /\ stacks' = stacks
         /\ Len(cursor'.seen) > 0 =>
              /\ cursor.held
              /\ cursor'.start = cursor.start
              /\ cursor'.seen = Append(cursor.seen, value(pool, cursor.iter.stack_index))
              /\ cursor'.iter.stack_index = next(pool, cursor.iter.stack_index)
         /\ Len(cursor'.seen) = 0 => cursor'.iter.stack_index = cursor'.start
         /\ iter_eq(cursor'.iter, end_it(cursor'.start)) =>
              /\ cursor'.seen = traverse(pool', cursor'.start)
              /\ \A s \in StackIds :
                   stacks'[s] = cursor'.start => cursor'.seen = content'[s]
      ]_vars

\* a traversal of a stack of two different values has reached end
C18_Witness ==
    /\ Valid
    /\ cursor.held
    /\ cursor.start # 0
    /\ iter_eq(cursor.iter, end_it(cursor.start))
    /\ Len(cursor.seen) = 2
    /\ cursor.seen[1] # cursor.seen[2]
    /\ cursor.seen = traverse(pool, cursor.start)

\* ----------------------------------------------------------------- C19
\* C19: free_stack on the empty stack is safe: free_stack(0) returns 0,
\* leaves the storage and free_nodes as they are, and accesses no storage
\* position outside 1..len.
C19_FreeStackEmptyIsSafe ==
    [][(op'.name = "free_stack" /\ op'.x = 0) =>
         /\ op'.ret = 0
         /\ pool' = pool
         /\ free_nodes' = free_nodes
         /\ ~op'.oob
         /\ status' = "ok"
      ]_vars

\* ----------------------------------------------------------------- C20
\* C20: for every held stack, empty ones included, free_stack and popping
\* until the stack is empty give, from the same state: the handle 0; a free
\* list that begins with the nodes of the stack's chain (in either order)
\* and goes on with the old free list; and the same sequence as before for
\* every other held stack.
C20_FreeStackIsDrain ==
    Valid =>
      \A s \in StackIds, g \in 0..Len(pool) :
        \A c \in {chain(pool, stacks[s])}, old \in {chain(pool, free_nodes)} :
          \A a \in {free_stack(pool, free_nodes, stacks[s], g),
                     drain(pool, free_nodes, stacks[s], Len(pool))} :
            \A fl \in {chain(a.pool, a.free_nodes)} :
              /\ a.ret = 0
              /\ Len(fl) = Len(c) + Len(old)
              /\ Elems(SubSeq(fl, 1, Len(c))) = Elems(c)
              /\ SubSeq(fl, Len(c) + 1, Len(fl)) = old
              /\ \A t \in StackIds :
                   t # s => traverse(a.pool, stacks[t]) = traverse(pool, stacks[t])

====
